---------------------------- MODULE Spec2Model ----------------------------
(***************************************************************************)
(* A model of px4_params_diff.py: parse_params, compare_params,            *)
(* export_to_csv and main.                                                 *)
(*                                                                         *)
(* A string is a sequence of characters; a character is a one-element      *)
(* TLA+ string, with "LF" standing for the line feed and "TAB" for the     *)
(* horizontal tab.  A line of a file is the string `for line in file`      *)
(* yields: the line's characters with its terminating line feed.           *)
(***************************************************************************)
EXTENDS Naturals, Sequences, FiniteSets

(***************************************************************************)
(* Bounds of the model.                                                    *)
(***************************************************************************)
\* The longest input file of SpecParse, in lines.
MaxLines == 3
\* The longest input file of SpecMain, in lines.
MaxMainLines == 2

(***************************************************************************)
(* Strings.                                                                *)
(***************************************************************************)
\* The characters str.strip() and str.split() treat as whitespace.
Whitespace == {" ", "TAB", "LF"}

\* The default of dict.get in compare_params: the string "N/A".
NA == <<"N", "/", "A">>

\* line.startswith("#")
StartsWithHash(line) == Len(line) > 0 /\ line[1] = "#"

RECURSIVE LStrip(_)
LStrip(s) ==
    IF s = <<>> THEN <<>>
    ELSE IF Head(s) \in Whitespace THEN LStrip(Tail(s))
    ELSE s

RECURSIVE RStrip(_)
RStrip(s) ==
    IF s = <<>> THEN <<>>
    ELSE IF s[Len(s)] \in Whitespace THEN RStrip(SubSeq(s, 1, Len(s) - 1))
    ELSE s

\* line.strip()
Strip(s) == RStrip(LStrip(s))

RECURSIVE SplitAcc(_, _, _)
SplitAcc(rest, cur, acc) ==
    IF rest = <<>>
    THEN IF cur = <<>> THEN acc ELSE Append(acc, cur)
    ELSE IF Head(rest) \in Whitespace
         THEN SplitAcc(Tail(rest), <<>>, IF cur = <<>> THEN acc ELSE Append(acc, cur))
         ELSE SplitAcc(Tail(rest), Append(cur, Head(rest)), acc)

\* line.split(): the maximal runs of non-whitespace characters, in order.
Split(line) == SplitAcc(line, <<>>, <<>>)

(***************************************************************************)
(* Dictionaries: functions from keys (strings) to values (strings).        *)
(***************************************************************************)
EmptyDict == [k \in {} |-> <<>>]

\* params[name] = value
DictSet(d, name, value) ==
    [k \in (DOMAIN d) \cup {name} |-> IF k = name THEN value ELSE d[k]]

\* params.get(key, "N/A")
DictGet(d, key) == IF key \in DOMAIN d THEN d[key] ELSE NA

(***************************************************************************)
(* parse_params: the body of the loop over the lines, as a function of     *)
(* the dictionary built so far and the line.  The result tells whether     *)
(* the body raised and gives the dictionary after it.                      *)
(***************************************************************************)
\* The guard of line 31: the line is skipped.
SkipLine(line) == StartsWithHash(line) \/ Strip(line) = <<>>

WrongArityFewer(parts) == Len(parts) < 5
\* The guard of line 34: the line is skipped.
WrongArity(parts) == Len(parts) # 5

\* Line 36: unpacking into five targets raises ValueError unless there are
\* exactly five parts.
UnpackRaises(parts) == Len(parts) # 5

ParseLine(d, line) ==
    IF SkipLine(line) THEN [raised |-> FALSE, params |-> d]
    ELSE LET parts == Split(line) IN
         IF WrongArity(parts) THEN [raised |-> FALSE, params |-> d]
         ELSE IF UnpackRaises(parts) THEN [raised |-> TRUE, params |-> d]
         ELSE [raised |-> FALSE, params |-> DictSet(d, parts[3], parts[4])]

(***************************************************************************)
(* compare_params.                                                         *)
(***************************************************************************)
KeysToCompareSwapped(p1, p2, common) ==
    IF common THEN (DOMAIN p1) \cup (DOMAIN p2) ELSE (DOMAIN p1) \cap (DOMAIN p2)
KeysToCompareUnion(p1, p2, common) == (DOMAIN p1) \cup (DOMAIN p2)
\* Lines 54-57: keys_to_compare.
KeysToCompare(p1, p2, common) ==
    IF common THEN (DOMAIN p1) \cap (DOMAIN p2) ELSE (DOMAIN p1) \cup (DOMAIN p2)

DifferAlways(value1, value2) == TRUE
\* Line 63: value1 != value2, on strings.
Differ(value1, value2) == value1 # value2

RecordEmptyDefault(key, p1, p2) ==
    <<key, DictGet(p1, key), IF key \in DOMAIN p2 THEN p2[key] ELSE <<>> >>
\* Lines 61-62 and 64: the tuple appended for key.
Record(key, p1, p2) == <<key, DictGet(p1, key), DictGet(p2, key)>>

(***************************************************************************)
(* export_to_csv and main: the output file and the messages.               *)
(***************************************************************************)
\* Line 79: the header row.
Header == <<"PARAMETER", "FILE1_VALUE", "FILE2_VALUE">>

\* Lines 100 and 102: the messages main prints.
MsgExported == "Differences exported to output_file"
MsgNoDiff == "No differences found."

\* A file that does not exist, and open(output_file, "w"): the file exists
\* and is empty.
NoFile == [exists |-> FALSE, rows |-> <<>>]
Truncated == [exists |-> TRUE, rows |-> <<>>]


(***************************************************************************)
(* The input files of the model.                                           *)
(***************************************************************************)
RECURSIVE Join(_)
\* The tokens, each followed by one space.
Join(toks) ==
    IF toks = <<>> THEN <<>> ELSE Head(toks) \o <<" ">> \o Join(Tail(toks))

\* A line: leading whitespace, the tokens separated by blanks, a line feed.
TextLine(lead, toks) == lead \o RStrip(Join(toks)) \o <<"LF">>

Lines ==
    { <<"LF">>,
      <<" ", "TAB", "LF">>,
      TextLine(<<>>, << <<"#">>, <<"1">>, <<"p">>, <<"1">>, <<"6">> >>),
      TextLine(<<" ">>, << <<"#">>, <<"1">>, <<"p">>, <<"2">>, <<"6">> >>),
      TextLine(<<"TAB">>, << <<"#", "c">> >>),
      TextLine(<<>>, << <<"1">>, <<"1">>, <<"p">>, <<"1">>, <<"6">> >>),
      TextLine(<<>>, << <<"1">>, <<"1">>, <<"p">>, <<"2">>, <<"6">> >>),
      TextLine(<<>>, << <<"1">>, <<"1">>, <<"q">>, <<"1">>, <<"6">> >>),
      TextLine(<<>>, << <<"9">>, <<"#">>, <<"q">>, <<"2">>, <<"7">> >>),
      TextLine(<<" ", " ">>, << <<"1">>, <<"1">>, <<"q">>, NA, <<"6">> >>),
      TextLine(<<>>, << <<"1">>, <<"1">>, <<"p">>, <<"2">> >>),
      TextLine(<<>>, << <<"1">>, <<"1">>, <<"q">>, <<"2">>, <<"6">>, <<"7">> >>),
      <<"1", "TAB", "1", " ", " ", "p", " ", "2", " ", "6">> }

MainLines ==
    { TextLine(<<>>, << <<"1">>, <<"1">>, <<"p">>, <<"1">>, <<"6">> >>),
      TextLine(<<>>, << <<"1">>, <<"1">>, <<"p">>, <<"2">>, <<"6">> >>),
      TextLine(<<>>, << <<"1">>, <<"1">>, <<"q">>, <<"1">>, <<"6">> >>),
      TextLine(<<>>, << <<"#">>, <<"1">>, <<"q">>, <<"2">>, <<"6">> >>) }

\* The files of at most n lines over the lines L: every line but the last
\* ends with its line feed.
FilesOver(L, n) ==
    { f \in UNION { [1..m -> L] : m \in 0..n } :
        \A i \in 1..(Len(f) - 1) : f[i][Len(f[i])] = "LF" }

\* The dictionaries compare_params is given in SpecCompare.
Names == { <<"p">>, <<"q">>, <<"r">> }
Values == { <<"1">>, <<"2">>, NA }
Dicts == UNION { [S -> Values] : S \in SUBSET Names }

\* The output file before the run: none, or one left by an earlier run.
OldFiles == { NoFile, [exists |-> TRUE, rows |-> <<Header, <<"old">> >>] }

(***************************************************************************)
(* The state.                                                              *)
(***************************************************************************)
VARIABLES
    pc,          \* where the run stands
    file1,       \* the lines of the first input file
    file2,       \* the lines of the second input file
    pos,         \* parse_params: the lines the loop has consumed
    params,      \* parse_params: the local dictionary
    params1,     \* main: params1
    params2,     \* main: params2
    common_only, \* main: common_only
    keys_left,   \* compare_params: the keys the loop has yet to visit
    differences, \* compare_params: the list; main: differences
    outFile,     \* the output file on disk
    outFile0,    \* the output file on disk before the run
    buf,         \* export_to_csv: the rows written and not yet on disk
    written,     \* export_to_csv: the records the loop has consumed
    stdout,      \* the messages printed
    exportCalls, \* the calls of export_to_csv
    handles,     \* the file handles that are open
    failed,      \* the operation that raised, "none" while none has
    second,      \* SpecCompare: what the second call changes
    round,       \* SpecCompare: the call of compare_params running
    report1      \* SpecCompare: what the first call returned

vars == <<pc, file1, file2, pos, params, params1, params2, common_only,
          keys_left, differences, outFile, outFile0, buf, written, stdout,
          exportCalls, handles, failed, second, round, report1>>

inputVars == <<file1, file2, outFile0, second>>
parseVars == <<pos, params>>
compareVars == <<keys_left, differences>>
exportVars == <<outFile, buf, written, exportCalls>>
harnessVars == <<round, report1>>

\* The file parse_params(n) reads.
FileOf(n) == IF n = 1 THEN file1 ELSE file2
PcOpen(n) == IF n = 1 THEN "parse1_open" ELSE "parse2_open"
PcLoop(n) == IF n = 1 THEN "parse1_loop" ELSE "parse2_loop"
HandleOf(n) == IF n = 1 THEN "in1" ELSE "in2"
OpenName(n) == IF n = 1 THEN "open1" ELSE "open2"
ReadName(n) == IF n = 1 THEN "read1" ELSE "read2"

(***************************************************************************)
(* parse_params.                                                           *)
(***************************************************************************)
\* Lines 28-29: params = {}, and open() succeeds.
ParseOpen(n) ==
    /\ pc = PcOpen(n)
    /\ params' = EmptyDict
    /\ pos' = 0
    /\ handles' = handles \cup {HandleOf(n)}
    /\ pc' = PcLoop(n)
    /\ UNCHANGED <<inputVars, params1, params2, common_only, compareVars,
                   exportVars, stdout, failed, harnessVars>>

\* Line 29: open() raises; the exception leaves main.
ParseOpenFail(n) ==
    /\ pc = PcOpen(n)
    /\ pc' = "aborted"
    /\ failed' = OpenName(n)
    /\ UNCHANGED <<inputVars, parseVars, params1, params2, common_only,
                   compareVars, exportVars, stdout, handles, harnessVars>>

\* Lines 30-37: one round of the loop.  An exception raised by the body
\* leaves the with statement, which closes the file, and then main.
ParseStep(n) ==
    /\ pc = PcLoop(n)
    /\ pos < Len(FileOf(n))
    /\ LET r == ParseLine(params, FileOf(n)[pos + 1]) IN
         IF r.raised
         THEN /\ pc' = "aborted"
              /\ failed' = "unpack"
              /\ handles' = handles \ {HandleOf(n)}
              /\ UNCHANGED parseVars
         ELSE /\ params' = r.params
              /\ pos' = pos + 1
              /\ UNCHANGED <<pc, failed, handles>>
    /\ UNCHANGED <<inputVars, params1, params2, common_only, compareVars,
                   exportVars, stdout, harnessVars>>

ParseReadFailLeak(n) ==
    /\ pc = PcLoop(n)
    /\ pc' = "aborted"
    /\ failed' = ReadName(n)
    /\ UNCHANGED <<inputVars, parseVars, params1, params2, common_only,
                   compareVars, exportVars, stdout, handles, harnessVars>>
\* Line 30: reading the next line raises; the with statement closes the
\* file and the exception leaves main.
ParseReadFail(n) ==
    /\ pc = PcLoop(n)
    /\ handles' = handles \ {HandleOf(n)}
    /\ pc' = "aborted"
    /\ failed' = ReadName(n)
    /\ UNCHANGED <<inputVars, parseVars, params1, params2, common_only,
                   compareVars, exportVars, stdout, harnessVars>>

\* Lines 30, 38 and 94-95: the file is exhausted, the with statement closes
\* it, and main binds the dictionary returned.
ParseReturn(n) ==
    /\ pc = PcLoop(n)
    /\ pos = Len(FileOf(n))
    /\ handles' = handles \ {HandleOf(n)}
    /\ IF n = 1
       THEN params1' = params /\ params2' = params2 /\ pc' = "parse2_open"
       ELSE params2' = params /\ params1' = params1 /\ pc' = "compare"
    /\ UNCHANGED <<inputVars, parseVars, common_only, compareVars,
                   exportVars, stdout, failed, harnessVars>>

(***************************************************************************)
(* SpecParse: parse_params on every file of at most MaxLines lines.        *)
(***************************************************************************)
InitParse ==
    /\ pc = "parse1_open"
    /\ file1 \in FilesOver(Lines, MaxLines)
    /\ file2 = <<>>
    /\ pos = 0
    /\ params = EmptyDict
    /\ params1 = EmptyDict
    /\ params2 = EmptyDict
    /\ common_only = FALSE
    /\ keys_left = {}
    /\ differences = <<>>
    /\ outFile = NoFile
    /\ outFile0 = NoFile
    /\ buf = <<>>
    /\ written = 0
    /\ stdout = <<>>
    /\ exportCalls = 0
    /\ handles = {}
    /\ failed = "none"
    /\ second = "none"
    /\ round = 1
    /\ report1 = <<>>

NextParse ==
    \/ ParseOpen(1)
    \/ ParseOpenFail(1)
    \/ ParseStep(1)
    \/ ParseReadFail(1)
    \/ ParseReturn(1)

SpecParse == InitParse /\ [][NextParse]_vars

(***************************************************************************)
(* compare_params.                                                         *)
(***************************************************************************)
\* Lines 54-59: keys_to_compare and differences = [].
CompareBegin ==
    /\ pc = "compare"
    /\ keys_left' = KeysToCompare(params1, params2, common_only)
    /\ differences' = <<>>
    /\ pc' = "compare_loop"
    /\ UNCHANGED <<inputVars, parseVars, params1, params2, common_only,
                   exportVars, stdout, handles, failed, harnessVars>>

\* Lines 60-64: one round of the loop.  A set is iterated in no order the
\* language defines: the key is any key not yet visited.
CompareStep ==
    /\ pc = "compare_loop"
    /\ \E key \in keys_left :
         /\ keys_left' = keys_left \ {key}
         /\ differences' =
              IF Differ(DictGet(params1, key), DictGet(params2, key))
              THEN Append(differences, Record(key, params1, params2))
              ELSE differences
    /\ UNCHANGED <<pc, inputVars, parseVars, params1, params2, common_only,
                   exportVars, stdout, handles, failed, harnessVars>>

\* Lines 65 and 96: the loop is over; main binds the list returned.
CompareReturn ==
    /\ pc = "compare_loop"
    /\ keys_left = {}
    /\ pc' = "branch"
    /\ UNCHANGED <<inputVars, parseVars, params1, params2, common_only,
                   compareVars, exportVars, stdout, handles, failed,
                   harnessVars>>

(***************************************************************************)
(* main, after the comparison, and export_to_csv.                          *)
(***************************************************************************)
HasDifferencesAlways == TRUE
\* Line 98: if differences.
HasDifferences == differences # <<>>

\* Lines 101-102: nothing differs.
MainNoDiff ==
    /\ pc = "branch"
    /\ ~HasDifferences
    /\ stdout' = Append(stdout, MsgNoDiff)
    /\ pc' = "done"
    /\ UNCHANGED <<inputVars, parseVars, params1, params2, common_only,
                   compareVars, exportVars, handles, failed, harnessVars>>

\* Lines 98-99: main calls export_to_csv.
ExportCall ==
    /\ pc = "branch"
    /\ HasDifferences
    /\ exportCalls' = exportCalls + 1
    /\ pc' = "export_open"
    /\ UNCHANGED <<inputVars, parseVars, params1, params2, common_only,
                   compareVars, outFile, buf, written, stdout, handles,
                   failed, harnessVars>>

\* Lines 77-78: open(output_file, "w") creates or truncates the file.
ExportOpen ==
    /\ pc = "export_open"
    /\ outFile' = Truncated
    /\ buf' = <<>>
    /\ written' = 0
    /\ handles' = handles \cup {"out"}
    /\ pc' = "export_header"
    /\ UNCHANGED <<inputVars, parseVars, params1, params2, common_only,
                   compareVars, exportCalls, stdout, failed, harnessVars>>

ExportOpenFailTruncates ==
    /\ pc = "export_open"
    /\ outFile' = Truncated
    /\ pc' = "aborted"
    /\ failed' = "open_out"
    /\ UNCHANGED <<inputVars, parseVars, params1, params2, common_only,
                   compareVars, buf, written, exportCalls, stdout, handles,
                   harnessVars>>
\* Line 77: open() raises; the exception leaves main.
ExportOpenFail ==
    /\ pc = "export_open"
    /\ pc' = "aborted"
    /\ failed' = "open_out"
    /\ UNCHANGED <<inputVars, parseVars, params1, params2, common_only,
                   compareVars, exportVars, stdout, handles, harnessVars>>

\* A row handed to the file object: it is buffered, and the buffer goes to
\* disk when it is full.
WriteRow(row, flush) ==
    IF flush
    THEN /\ outFile' = [outFile EXCEPT !.rows = outFile.rows \o buf \o <<row>>]
         /\ buf' = <<>>
    ELSE /\ outFile' = outFile
         /\ buf' = Append(buf, row)

\* Line 79: the header row.
ExportWriteHeader ==
    /\ pc = "export_header"
    /\ \E flush \in BOOLEAN : WriteRow(Header, flush)
    /\ pc' = "export_rows"
    /\ UNCHANGED <<inputVars, parseVars, params1, params2, common_only,
                   compareVars, written, exportCalls, stdout, handles,
                   failed, harnessVars>>

\* Lines 80-81: one round of the loop.
ExportWriteRow ==
    /\ pc = "export_rows"
    /\ written < Len(differences)
    /\ \E flush \in BOOLEAN : WriteRow(differences[written + 1], flush)
    /\ written' = written + 1
    /\ UNCHANGED <<pc, inputVars, parseVars, params1, params2, common_only,
                   compareVars, exportCalls, stdout, handles, failed,
                   harnessVars>>

\* Lines 79 and 81: a write raises; the with statement closes the file,
\* the disk keeps what had reached it, and the exception leaves main.
ExportWriteFail ==
    /\ \/ pc = "export_header"
       \/ pc = "export_rows" /\ written < Len(differences)
    /\ handles' = handles \ {"out"}
    /\ pc' = "aborted"
    /\ failed' = "write"
    /\ UNCHANGED <<inputVars, parseVars, params1, params2, common_only,
                   compareVars, exportVars, stdout, harnessVars>>

\* Line 81, the end of the with statement: the buffer goes to disk and the
\* file is closed; export_to_csv returns.
ExportClose ==
    /\ pc = "export_rows"
    /\ written = Len(differences)
    /\ outFile' = [outFile EXCEPT !.rows = outFile.rows \o buf]
    /\ buf' = <<>>
    /\ handles' = handles \ {"out"}
    /\ pc' = "print_exported"
    /\ UNCHANGED <<inputVars, parseVars, params1, params2, common_only,
                   compareVars, written, exportCalls, stdout, failed,
                   harnessVars>>

\* The end of the with statement: writing the buffer out raises; the file
\* is closed all the same and the exception leaves main.
ExportCloseFail ==
    /\ pc = "export_rows"
    /\ written = Len(differences)
    /\ handles' = handles \ {"out"}
    /\ pc' = "aborted"
    /\ failed' = "close"
    /\ UNCHANGED <<inputVars, parseVars, params1, params2, common_only,
                   compareVars, exportVars, stdout, harnessVars>>

\* Line 100: the success message.
MainPrintExported ==
    /\ pc = "print_exported"
    /\ stdout' = Append(stdout, MsgExported)
    /\ pc' = "done"
    /\ UNCHANGED <<inputVars, parseVars, params1, params2, common_only,
                   compareVars, exportVars, handles, failed, harnessVars>>

(***************************************************************************)
(* SpecCompare: compare_params called twice on a pair of dictionaries,     *)
(* the second time with the dictionaries exchanged ("swap") or with the    *)
(* other mode ("flip").                                                    *)
(***************************************************************************)
InitCompare ==
    /\ pc = "compare"
    /\ file1 = <<>>
    /\ file2 = <<>>
    /\ pos = 0
    /\ params = EmptyDict
    /\ params1 \in Dicts
    /\ params2 \in Dicts
    /\ common_only \in BOOLEAN
    /\ keys_left = {}
    /\ differences = <<>>
    /\ outFile = NoFile
    /\ outFile0 = NoFile
    /\ buf = <<>>
    /\ written = 0
    /\ stdout = <<>>
    /\ exportCalls = 0
    /\ handles = {}
    /\ failed = "none"
    /\ second \in {"swap", "flip"}
    /\ round = 1
    /\ report1 = <<>>

\* The first call has returned: the second call.
CompareAgain ==
    /\ pc = "branch"
    /\ round = 1
    /\ round' = 2
    /\ report1' = differences
    /\ params1' = IF second = "swap" THEN params2 ELSE params1
    /\ params2' = IF second = "swap" THEN params1 ELSE params2
    /\ common_only' = IF second = "flip" THEN ~common_only ELSE common_only
    /\ pc' = "compare"
    /\ UNCHANGED <<inputVars, parseVars, compareVars, exportVars, stdout,
                   handles, failed>>

NextCompare ==
    \/ CompareBegin
    \/ CompareStep
    \/ CompareReturn
    \/ CompareAgain

SpecCompare == InitCompare /\ [][NextCompare]_vars

(***************************************************************************)
(* SpecMain: a run of main on two input files of at most MaxMainLines      *)
(* lines, in either mode, with or without an output file left by an        *)
(* earlier run, where any operation on a file may fail.                    *)
(***************************************************************************)
InitMain ==
    /\ pc = "parse1_open"
    /\ file1 \in FilesOver(MainLines, MaxMainLines)
    /\ file2 \in FilesOver(MainLines, MaxMainLines)
    /\ pos = 0
    /\ params = EmptyDict
    /\ params1 = EmptyDict
    /\ params2 = EmptyDict
    /\ common_only \in BOOLEAN
    /\ keys_left = {}
    /\ differences = <<>>
    /\ outFile0 \in OldFiles
    /\ outFile = outFile0
    /\ buf = <<>>
    /\ written = 0
    /\ stdout = <<>>
    /\ exportCalls = 0
    /\ handles = {}
    /\ failed = "none"
    /\ second = "none"
    /\ round = 1
    /\ report1 = <<>>

NextMain ==
    \/ \E n \in {1, 2} :
         \/ ParseOpen(n)
         \/ ParseOpenFail(n)
         \/ ParseStep(n)
         \/ ParseReadFail(n)
         \/ ParseReturn(n)
    \/ CompareBegin
    \/ CompareStep
    \/ CompareReturn
    \/ MainNoDiff
    \/ ExportCall
    \/ ExportOpen
    \/ ExportOpenFail
    \/ ExportWriteHeader
    \/ ExportWriteRow
    \/ ExportWriteFail
    \/ ExportClose
    \/ ExportCloseFail
    \/ MainPrintExported

SpecMain == InitMain /\ [][NextMain]_vars

(***************************************************************************)
(* What the properties are stated with.                                    *)
(***************************************************************************)
\* The records of a report, as a set.
RecordsOf(report) == { report[i] : i \in 1..Len(report) }

\* The names of a report's records.
NamesIn(report) == { report[i][1] : i \in 1..Len(report) }

\* The value of name k in dictionary d, "N/A" when d has no k.
Resolved(d, k) == IF k \in DOMAIN d THEN d[k] ELSE NA

\* The records of a report for name k.
RecordsFor(report, k) == { r \in RecordsOf(report) : r[1] = k }

\* No two records of the report have the same name.
OnePerName(report) ==
    \A i, j \in 1..Len(report) : report[i][1] = report[j][1] => i = j

\* A line that is blank, or whose first non-whitespace character is '#'.
BlankOrComment(line) == LStrip(line) = <<>> \/ Head(LStrip(line)) = "#"

\* A data line: neither blank nor a comment, and of exactly five tokens.
DataLine(line) == ~BlankOrComment(line) /\ Len(Split(line)) = 5

\* The places of the data lines of a file that name k.
DataLinesFor(file, k) ==
    { i \in 1..Len(file) : DataLine(file[i]) /\ Split(file[i])[3] = k }

\* The names the data lines of a file give.
DataNames(file) ==
    { Split(file[i])[3] : i \in { j \in 1..Len(file) : DataLine(file[j]) } }

\* The last place of a non-empty set of places.
Last(S) == CHOOSE i \in S : \A j \in S : j <= i

\* The two reports of a "flip" pair of calls, by mode.
CommonReport == IF common_only THEN differences ELSE report1
FullReport == IF common_only THEN report1 ELSE differences

(***************************************************************************)
(* parse_params (SpecParse).                                               *)
(***************************************************************************)
\* C2: a line that is empty, whitespace-only, or whose first non-whitespace
\* character is '#' contributes no entry: the round of the loop that
\* consumes it leaves the dictionary as it was.
C2_BlankOrCommentContributesNothing ==
    [][(pc = "parse1_loop" /\ pos' = pos + 1 /\ BlankOrComment(file1[pos']))
         => params' = params]_vars

\* C3: the dictionary parse_params returns has exactly the names the data
\* lines of the file give, each with the fourth token of the last data line
\* that names it.
C3_LastDataLineWins ==
    pc = "parse2_open" =>
        /\ DOMAIN params1 = DataNames(file1)
        /\ \A k \in DOMAIN params1 :
             params1[k] = Split(file1[Last(DataLinesFor(file1, k))])[4]

\* C4: a line of other than five tokens adds and overwrites no entry and
\* raises nothing: the loop goes on to the next line with the dictionary as
\* it was.
C4_WrongArityLineSkipped ==
    [][(/\ pc = "parse1_loop"
        /\ pos < Len(file1)
        /\ Len(Split(file1[pos + 1])) # 5
        /\ failed' # "read1")
         => (/\ params' = params
             /\ pos' = pos + 1
             /\ pc' = "parse1_loop"
             /\ failed' = "none")]_vars

\* C4's case: a line of six tokens that is no comment has just been
\* consumed, with entries already in the dictionary.
C4_Witness ==
    /\ pc = "parse1_loop"
    /\ pos >= 2
    /\ Len(Split(file1[pos])) = 6
    /\ ~BlankOrComment(file1[pos])
    /\ params # EmptyDict

(***************************************************************************)
(* compare_params (SpecCompare).                                           *)
(***************************************************************************)
\* C1, as claimed: in both modes and for every name k, the report has a
\* record for k exactly when the two resolved values of k differ, and the
\* record is (k, resolved value in A, resolved value in B).
C1_RecordIffResolvedDiffer ==
    pc = "branch" =>
        \A k \in Names :
            /\ RecordsFor(differences, k) # {}
                 <=> Resolved(params1, k) # Resolved(params2, k)
            /\ RecordsFor(differences, k)
                 \subseteq { <<k, Resolved(params1, k), Resolved(params2, k)>> }

\* C1, amended: the same for every name k when common_only is false, and
\* for every name k that is a key of both dictionaries when common_only is
\* true; with common_only true a name missing from either dictionary has no
\* record.
C1_RecordIffCandidateAndDiffer ==
    pc = "branch" =>
        \A k \in Names :
            /\ RecordsFor(differences, k) # {}
                 <=> /\ common_only => k \in (DOMAIN params1) \cap (DOMAIN params2)
                     /\ Resolved(params1, k) # Resolved(params2, k)
            /\ RecordsFor(differences, k)
                 \subseteq { <<k, Resolved(params1, k), Resolved(params2, k)>> }

\* C1's case: a call in common-only mode has returned a record, and a name
\* is a key of the first dictionary alone.
C1_Witness ==
    /\ pc = "branch"
    /\ common_only
    /\ differences # <<>>
    /\ (DOMAIN params1) \ (DOMAIN params2) # {}

\* C5: (k, v1, v2) is a record of compare_params(A, B, mode) exactly when
\* (k, v2, v1) is a record of compare_params(B, A, mode).
C5_SymmetryInversion ==
    (pc = "branch" /\ round = 2 /\ second = "swap") =>
        RecordsOf(differences) = { <<r[1], r[3], r[2]>> : r \in RecordsOf(report1) }

\* C5's case: both calls have returned, with a record for a name that only
\* one dictionary has and a record for a name both have.
C5_Witness ==
    /\ pc = "branch" /\ round = 2 /\ second = "swap"
    /\ \E r \in RecordsOf(report1) : r[2] = NA /\ r[1] \notin DOMAIN params2
    /\ \E r \in RecordsOf(report1) : r[1] \in (DOMAIN params1) \cap (DOMAIN params2)

\* C6: the names of the common-only report are among the names of the
\* report of the other mode, for the same dictionaries.
C6_CommonNamesSubset ==
    (pc = "branch" /\ round = 2 /\ second = "flip") =>
        NamesIn(CommonReport) \subseteq NamesIn(FullReport)

\* C6's case: both modes have run, the common-only report has a name and
\* the other report has one more.
C6_Witness ==
    /\ pc = "branch" /\ round = 2 /\ second = "flip"
    /\ NamesIn(CommonReport) # {}
    /\ NamesIn(FullReport) \ NamesIn(CommonReport) # {}

\* C10: the common-only report is, as a set, the records of the other
\* mode's report whose name is a key of both dictionaries, and no report
\* has two records for one name.
C10_CommonOnlyFilters ==
    /\ (pc = "branch" /\ round = 2 /\ second = "flip") =>
         RecordsOf(CommonReport) =
            { r \in RecordsOf(FullReport) :
                r[1] \in (DOMAIN params1) \cap (DOMAIN params2) }
    /\ OnePerName(differences)
    /\ OnePerName(report1)

\* C10's case: both modes have run on dictionaries of two keys each, one
\* key shared with different values and one not shared.
C10_Witness ==
    /\ pc = "branch" /\ round = 2 /\ second = "flip"
    /\ Len(FullReport) >= 2
    /\ Len(CommonReport) = 1
    /\ common_only

(***************************************************************************)
(* main and export_to_csv (SpecMain).                                      *)
(***************************************************************************)
\* C7: a run whose parses succeed and whose report is empty never calls
\* export_to_csv, leaves the output file as it was and prints only "No
\* differences found."; export_to_csv is called once, after the parses and
\* the comparison, exactly when the report is not empty.
C7_ExportOnlyWhenDifferences ==
    /\ (pc = "done" /\ differences = <<>>) =>
         /\ exportCalls = 0
         /\ outFile = outFile0
         /\ stdout = <<MsgNoDiff>>
    /\ exportCalls \in {0, 1}
    /\ exportCalls = 1 =>
         /\ differences # <<>>
         /\ keys_left = {}
         /\ pc \in {"export_open", "export_header", "export_rows",
                    "print_exported", "done", "aborted"}
         /\ failed \notin {"open1", "read1", "open2", "read2"}
    /\ (pc \in {"export_open", "export_header", "export_rows",
                "print_exported", "done"} /\ differences # <<>>) =>
         exportCalls = 1

\* C7's case: two equal, non-empty files were compared with an output file
\* of an earlier run in place, and the run is over.
C7_Witness ==
    /\ pc = "done"
    /\ differences = <<>>
    /\ file1 = file2
    /\ file1 # <<>>
    /\ outFile0.exists

\* C8, as claimed: when a run aborts, the output file is as it was before
\* the run or holds the header row and every record of the report, and no
\* success message was printed.
C8_NoPartialOutput ==
    pc = "aborted" =>
        /\ \/ outFile = outFile0
           \/ outFile = [exists |-> TRUE, rows |-> <<Header>> \o differences]
        /\ \A i \in 1..Len(stdout) : stdout[i] # MsgExported

\* C8, amended: when a run aborts no success message was printed, and when
\* it aborts on opening or reading an input file or on opening the output
\* file, the output file is as it was before the run.
C8_NoOutputUnlessWriting ==
    pc = "aborted" =>
        /\ \A i \in 1..Len(stdout) : stdout[i] # MsgExported
        /\ failed \in {"open1", "read1", "open2", "read2", "open_out"}
             => outFile = outFile0

\* C8's case: the report is not empty, an earlier run's output file is in
\* place, and opening it for writing failed.
C8_Witness ==
    /\ pc = "aborted"
    /\ failed = "open_out"
    /\ differences # <<>>
    /\ outFile0.exists

\* C9: when the run is over, normally or not, no file handle is open; and
\* the output handle is open only with both input handles closed, after
\* the comparison, and with a report that is not empty.
C9_HandlesScoped ==
    /\ pc \in {"done", "aborted"} => handles = {}
    /\ "out" \in handles =>
         /\ handles = {"out"}
         /\ differences # <<>>
         /\ pc \in {"export_header", "export_rows"}
    /\ "in1" \in handles => pc = "parse1_loop"
    /\ "in2" \in handles => pc = "parse2_loop"

\* C9's case: reading the second input file failed after its first line.
C9_Witness ==
    /\ pc = "aborted"
    /\ failed = "read2"
    /\ pos >= 1
    /\ params1 # EmptyDict

=============================================================================
